---- MODULE Spec2Model ----
(***************************************************************************)
(* Tee-time availability and booking admission of the golf course site.   *)
(*                                                                         *)
(* The record store (Supabase/PostgreSQL) is modelled by the variables     *)
(* tee_times, course_conditions, admin_settings and memberships.  Every    *)
(* route handler is a process whose steps are the handler's awaits: each   *)
(* store query is one atomic step, and other requests may run in between.  *)
(*                                                                         *)
(* Representation of values:                                               *)
(*   - a date is a day number; an instant is a number of minutes, so the   *)
(*     day of instant n is n \div MinutesPerDay;                           *)
(*   - the text "HH:mm" is the tuple <<h, m>>; the text PostgREST returns  *)
(*     for a TIME column, "HH:MM:SS", is the tuple <<h, m, s>>; the empty  *)
(*     text (or a missing value) is <<>>;                                  *)
(*   - a TIME value inside the store is its minute of the day;             *)
(*   - a numeric setting is an integer other than Unset, and Unset when    *)
(*     the row is missing;                                                 *)
(*   - the booking_date text of a request is the pair of its day           *)
(*     (booking_date) and the time of day written after it (date_minutes,  *)
(*     0 for a date-only text); a DATE column keeps the day.               *)
(* Queries are assumed to see every row (no row-level-security filter)     *)
(* and the store is assumed to answer (no transport failure).              *)
(***************************************************************************)
EXTENDS Integers, Sequences, FiniteSets, TLC

VARIABLES
    tee_times,          \* sequence of booking rows; the row id is its index
    course_conditions,  \* set of condition rows, condition_date is unique
    admin_settings,     \* record: setting_key -> setting_value
    memberships,        \* set of membership rows
    now,                \* the clock, in minutes
    post,               \* POST /bookings requests in flight, by request id
    avail,              \* the GET /bookings/availability request
    del,                \* the DELETE /bookings/:id request
    put,                \* the PUT /bookings/:id request
    get,                \* the GET /bookings/:id request
    payment_intents,    \* payment intents held by Stripe; the id is the index
    payment_transactions, \* sequence of payment transaction rows
    pay,                \* the POST /payments/create-booking-payment request
    hook,               \* the POST /payments/webhook request
    events,             \* event rows by event id
    event_registrations, \* sequence of registration rows
    reg                 \* POST /events/:id/register requests, by request id

vars == <<tee_times, course_conditions, admin_settings, memberships, now,
          post, avail, del, put, get, payment_intents, payment_transactions,
          pay, hook, events, event_registrations, reg>>

paymentVars == <<payment_intents, payment_transactions, pay, hook>>

eventVars == <<events, event_registrations, reg>>

----------------------------------------------------------------------------
(* Bounds of the model *)

MaxReqs == 2

\* minutes the clock advances in a run
MaxTicks == 4

\* payment intents created in a run
MaxIntents == 2

Reqs == 1..MaxReqs

----------------------------------------------------------------------------
(* Values *)

MinutesPerDay == 24 * 60

Unset == 0 - 1

NoUser == "none"

Today == now \div MinutesPerDay

\* moment(text, 'HH:mm'): minutes after midnight
ParseHHmm(t) == t[1] * 60 + t[2]

\* moment.format('HH:mm') of an instant given in minutes after midnight
FormatHHmm(m) == <<(m \div 60) % 24, m % 60>>

\* PostgreSQL reading the text of a time into a TIME column
TimeIn(t) == t[1] * 60 + t[2]

\* PostgREST writing a TIME value: "HH:MM:SS"
TimeOut(v) == <<v \div 60, v % 60, 0>>

\* supabase .single(): the row when exactly one row matches, else no data
Single(rows) == IF Cardinality(rows) = 1 THEN rows ELSE {}

\* JavaScript `parseInt(v) || d`: NaN and 0 are falsy
ParseIntOr(v, d) == IF v = Unset \/ v = 0 THEN d ELSE v

\* JavaScript `text || d`
TextOr(t, d) == IF t = <<>> THEN d ELSE t

----------------------------------------------------------------------------
(* Defaults written in the code *)

DefaultOpenTime == <<7, 0>>

DefaultCloseTime == <<19, 0>>

DefaultInterval == 15

DefaultGuestAdvanceDays == 30

DefaultMemberAdvanceDays == 60

DefaultGreenFee9 == 10

DefaultGreenFeeAllDay == 15

DefaultCartFee == 15

\* the rows inserted by the schema's initial data
SeedSettings ==
    [course_open_time |-> <<7, 0>>,
     course_close_time |-> <<19, 0>>,
     tee_time_interval |-> 15,
     cancellation_hours |-> 24,
     member_booking_advance_days |-> Unset,
     green_fee_9_holes |-> 10,
     green_fee_all_day |-> 15,
     cart_rental_fee |-> 15]

----------------------------------------------------------------------------
(* GET /bookings/availability *)

RECURSIVE GenerateTimeSlotsInclusive(_, _, _)
\* the loop written with isSameOrBefore: the closing time becomes a slot
GenerateTimeSlotsInclusive(start, end, interval) ==
    IF start <= end
    THEN <<FormatHHmm(start)>>
           \o GenerateTimeSlotsInclusive(start + interval, end, interval)
    ELSE <<>>

RECURSIVE GenerateTimeSlots(_, _, _)
\* the while loop: start.isBefore(end); push(format); start.add(interval)
GenerateTimeSlots(start, end, interval) ==
    IF start < end
    THEN <<FormatHHmm(start)>> \o GenerateTimeSlots(start + interval, end, interval)
    ELSE <<>>

OpenTimeOf(settings) == TextOr(settings.course_open_time, DefaultOpenTime)

CloseTimeOf(settings) == TextOr(settings.course_close_time, DefaultCloseTime)

IntervalOf(settings) == ParseIntOr(settings.tee_time_interval, DefaultInterval)

TimeSlotsOf(settings) ==
    GenerateTimeSlots(ParseHHmm(OpenTimeOf(settings)),
                      ParseHHmm(CloseTimeOf(settings)),
                      IntervalOf(settings))

\* rows of tee_times with booking_date = date and status = 'confirmed'
ConfirmedOn(date) ==
    {i \in 1..Len(tee_times) :
        tee_times[i].booking_date = date /\ tee_times[i].status = "confirmed"}

\* bookings.map(booking => booking.tee_time), as the texts the store returns
BookedTimesOn(date) == {TimeOut(tee_times[i].tee_time) : i \in ConfirmedOn(date)}

\* the course_conditions query with .single()
ConditionsOn(date) == Single({c \in course_conditions : c.condition_date = date})

\* conditions?.overall_condition !== 'closed'
NotClosed(conditions) == \A c \in conditions : c.overall_condition # "closed"

\* the comparison written as >= 0: a course with no holes counts as open
HolesOpenOrZero(conditions) == \E c \in conditions : c.holes_available >= 0

\* conditions?.holes_available > 0 ; undefined > 0 is false
HolesOpen(conditions) == \E c \in conditions : c.holes_available > 0

SlotAvailable(time, bookedTimes, conditions) ==
    /\ time \notin bookedTimes
    /\ NotClosed(conditions)
    /\ HolesOpen(conditions)

Availability(timeSlots, bookedTimes, conditions) ==
    [k \in 1..Len(timeSlots) |->
        [time |-> timeSlots[k],
         available |-> SlotAvailable(timeSlots[k], bookedTimes, conditions)]]

AvailIdle == [pc |-> "idle", date |-> 0, timeSlots |-> <<>>, bookedTimes |-> {},
              conditions |-> {}, time_slots |-> <<>>]

\* lines 95-120: read the settings, generate the slots
AvailStart(date) ==
    /\ avail.pc \in {"idle", "done"}
    /\ avail' = [AvailIdle EXCEPT !.pc = "bookings", !.date = date,
                                  !.timeSlots = TimeSlotsOf(admin_settings)]
    /\ UNCHANGED <<tee_times, course_conditions, admin_settings, memberships,
                   now, post, del, put,
                   get, paymentVars, eventVars>>

\* lines 122-129: read the confirmed bookings of the date
AvailBookings ==
    /\ avail.pc = "bookings"
    /\ avail' = [avail EXCEPT !.pc = "conditions",
                              !.bookedTimes = BookedTimesOn(avail.date)]
    /\ UNCHANGED <<tee_times, course_conditions, admin_settings, memberships,
                   now, post, del, put,
                   get, paymentVars, eventVars>>

\* the last step written to store a default row for a date without one
AvailConditionsWriting ==
    /\ avail.pc = "conditions"
    /\ LET conditions == ConditionsOn(avail.date) IN
       /\ avail' = [avail EXCEPT !.pc = "done",
                                 !.conditions = conditions,
                                 !.time_slots = Availability(avail.timeSlots,
                                                             avail.bookedTimes,
                                                             conditions)]
       /\ course_conditions' =
             IF conditions = {}
             THEN course_conditions \cup {[condition_date |-> avail.date,
                                           overall_condition |-> "good",
                                           holes_available |-> 9]}
             ELSE course_conditions
    /\ UNCHANGED <<tee_times, admin_settings, memberships,
                   now, post, del, put,
                   get, paymentVars, eventVars>>

\* lines 131-150: read the course conditions, answer
AvailConditions ==
    /\ avail.pc = "conditions"
    /\ LET conditions == ConditionsOn(avail.date) IN
       avail' = [avail EXCEPT !.pc = "done",
                              !.conditions = conditions,
                              !.time_slots = Availability(avail.timeSlots,
                                                          avail.bookedTimes,
                                                          conditions)]
    /\ UNCHANGED <<tee_times, course_conditions, admin_settings, memberships,
                   now, post, del, put,
                   get, paymentVars, eventVars>>

----------------------------------------------------------------------------
(* POST /admin/course-conditions: upsert on condition_date *)

NoHoles == 0 - 1

DefaultHoles == 9

Upserted(rows, date, overall, holes) ==
    LET old == {c \in rows : c.condition_date = date}
        kept == IF holes # NoHoles THEN holes
                ELSE IF old = {} THEN DefaultHoles
                ELSE (CHOOSE c \in old : TRUE).holes_available
    IN (rows \ old) \cup {[condition_date |-> date,
                           overall_condition |-> overall,
                           holes_available |-> kept]}

PostCourseConditions(date, overall, holes) ==
    /\ course_conditions' = Upserted(course_conditions, date, overall, holes)
    /\ UNCHANGED <<tee_times, admin_settings, memberships, now, post, avail, del, put,
                   get, paymentVars, eventVars>>

----------------------------------------------------------------------------
(* Callers.  A bearer token is the name of the user it was issued to.      *)

Users == {"alice", "bob", "admin"}

\* users.role
UserRole(u) == IF u = "admin" THEN "admin" ELSE "member"

\* supabase.auth.getUser(token)
UserOfToken(token) == IF token \in Users THEN token ELSE NoUser

----------------------------------------------------------------------------
(* bookingValidation *)

\* the memberships query without its status filter
ActiveMembershipAnyStatus(user) ==
    Single({m \in memberships :
               /\ m.user_id = user
               /\ m.end_date >= Today})

\* the memberships query of the date validator, with .single()
ActiveMembership(user) ==
    Single({m \in memberships :
               /\ m.user_id = user
               /\ m.status = "active"
               /\ m.end_date >= Today})

\* parseInt(setting?.setting_value || 60)
MemberAdvanceDays(settings) ==
    IF settings.member_booking_advance_days = Unset
    THEN DefaultMemberAdvanceDays
    ELSE settings.member_booking_advance_days

\* lines 20-43; reqUser is req.user as the validator finds it
MaxAdvanceDays(reqUser) ==
    IF reqUser # NoUser /\ ActiveMembership(reqUser) # {}
    THEN MemberAdvanceDays(admin_settings)
    ELSE DefaultGuestAdvanceDays

NoLimit == 0 - 1

Err(param, msg, limit) == [param |-> param, msg |-> msg, limit |-> limit]

\* moment(value) of the booking_date text, an ISO 8601 date or date-time
MomentOfDate(body) == body.booking_date * MinutesPerDay + body.date_minutes

\* lines 16-56: the custom validator of booking_date; bookingDate is
\* moment(value)
DateErrors(bookingDate, reqUser) ==
    LET today == Today * MinutesPerDay
        maxAdvanceDays == MaxAdvanceDays(reqUser)
        maxAdvance == now + maxAdvanceDays * MinutesPerDay
    IN IF bookingDate < today
       THEN <<Err("booking_date", "Cannot book tee times in the past", NoLimit)>>
       ELSE IF bookingDate > maxAdvance
       THEN <<Err("booking_date", "Cannot book more than N days in advance",
                  maxAdvanceDays)>>
       ELSE <<>>

\* lines 57-59: /^([0-1]?[0-9]|2[0-3]):[0-5][0-9]$/
TeeTimeMatches(t) == Len(t) = 2 /\ t[1] \in 0..23 /\ t[2] \in 0..59

TimeErrors(t) ==
    IF TeeTimeMatches(t) THEN <<>>
    ELSE <<Err("tee_time", "Valid time format required (HH:MM)", NoLimit)>>

\* lines 60-62
PlayersErrors(n) ==
    IF n \in 1..4 THEN <<>>
    ELSE <<Err("number_of_players", "Number of players must be between 1 and 4",
               NoLimit)>>

\* lines 79-81
FeeTypeErrors(f) ==
    IF f \in {"9_holes", "all_day"} THEN <<>>
    ELSE <<Err("green_fee_type", "Green fee type must be 9_holes or all_day",
               NoLimit)>>

\* the chains run in the order of the array and every error is collected
ValidationErrors(body, reqUser) ==
    DateErrors(MomentOfDate(body), reqUser) \o TimeErrors(body.tee_time)
      \o PlayersErrors(body.number_of_players) \o FeeTypeErrors(body.green_fee_type)

----------------------------------------------------------------------------
(* POST /bookings *)

\* row ids start at 1
NoBooking == Len(<<>>)

\* payment intent ids start at 1
NoIntent == Len(<<>>)

NoBody == [booking_date |-> 0, date_minutes |-> 0, tee_time |-> <<>>,
           number_of_players |-> 0, cart_rental |-> FALSE, green_fee_type |-> ""]

NoResponse == [status |-> 0, message |-> "", errors |-> <<>>, booking |-> NoBooking]

Response(status, message) ==
    [status |-> status, message |-> message, errors |-> <<>>, booking |-> NoBooking]

PostIdle == [pc |-> "idle", body |-> NoBody, token |-> NoUser, user |-> NoUser,
             maxAdvanceDays |-> NoLimit, errors |-> <<>>, bookingData |-> <<>>,
             response |-> NoResponse]

\* `pricingMap.key || d` after parseFloat
RateOr(v, d) == IF v = Unset \/ v = 0 THEN d ELSE v

\* lines 275-282
GreenFee(settings, feeType) ==
    IF feeType = "9_holes"
    THEN RateOr(settings.green_fee_9_holes, DefaultGreenFee9)
    ELSE RateOr(settings.green_fee_all_day, DefaultGreenFeeAllDay)

CartFee(settings, cartRental) ==
    IF cartRental THEN RateOr(settings.cart_rental_fee, DefaultCartFee) ELSE 0

\* lines 285-303; tee_time is stored in a TIME column
BookingData(settings, body, user) ==
    LET totalGreenFees == GreenFee(settings, body.green_fee_type) * body.number_of_players
        totalCartFees == CartFee(settings, body.cart_rental)
    IN [user_id |-> user,
        booking_date |-> body.booking_date,
        tee_time |-> TimeIn(body.tee_time),
        number_of_players |-> body.number_of_players,
        cart_rental |-> body.cart_rental,
        cart_rental_fee |-> totalCartFees,
        green_fee_type |-> body.green_fee_type,
        total_green_fees |-> totalGreenFees,
        total_cart_fees |-> totalCartFees,
        total_amount |-> totalGreenFees + totalCartFees,
        payment_status |-> "pending",
        status |-> "confirmed",
        cancelled_at |-> Unset,
        stripe_payment_intent_id |-> NoIntent]

\* the existence query without its filter on status
ExistingBookingAnyStatus(date, time) ==
    Single({i \in 1..Len(tee_times) :
               /\ tee_times[i].booking_date = date
               /\ tee_times[i].tee_time = TimeIn(time)})

\* the existence query of lines 252-258, with .single()
ExistingBooking(date, time) ==
    Single({i \in 1..Len(tee_times) :
               /\ tee_times[i].booking_date = date
               /\ tee_times[i].tee_time = TimeIn(time)
               /\ tee_times[i].status = "confirmed"})

\* the constraints of table tee_times that an insert can violate; the table
\* has a plain index on (booking_date, tee_time), no unique constraint
StoreAccepts(rows, row) ==
    /\ row.number_of_players \in 1..4
    /\ row.green_fee_type \in {"9_holes", "all_day"}
    /\ row.status \in {"confirmed", "cancelled", "no_show", "completed"}
    /\ row.payment_status \in {"pending", "paid", "failed", "refunded"}

\* the request enters the route: bookingValidation runs first
PostStart(r, body, token) ==
    /\ post[r].pc = "idle"
    /\ post' = [post EXCEPT ![r] = [PostIdle EXCEPT !.pc = "validate",
                                                    !.body = body,
                                                    !.token = token]]
    /\ UNCHANGED <<tee_times, course_conditions, admin_settings, memberships,
                   now, avail, del, put,
                   get, paymentVars, eventVars>>

\* the validation chains; req.user is what earlier middleware has set
PostValidate(r) ==
    /\ post[r].pc = "validate"
    /\ post' = [post EXCEPT ![r].pc = "auth",
                            ![r].maxAdvanceDays = MaxAdvanceDays(post[r].user),
                            ![r].errors = ValidationErrors(post[r].body, post[r].user)]
    /\ UNCHANGED <<tee_times, course_conditions, admin_settings, memberships,
                   now, avail, del, put,
                   get, paymentVars, eventVars>>

\* optionalAuth, then lines 233-236 of the handler
PostAuth(r) ==
    /\ post[r].pc = "auth"
    /\ post' = [post EXCEPT ![r] =
          IF post[r].errors # <<>>
          THEN [@ EXCEPT !.pc = "done",
                         !.user = UserOfToken(post[r].token),
                         !.response = [status |-> 400, message |-> "validation",
                                       errors |-> post[r].errors,
                                       booking |-> NoBooking]]
          ELSE [@ EXCEPT !.pc = "check", !.user = UserOfToken(post[r].token)]]
    /\ UNCHANGED <<tee_times, course_conditions, admin_settings, memberships,
                   now, avail, del, put,
                   get, paymentVars, eventVars>>

\* lines 251-262
PostCheck(r) ==
    /\ post[r].pc = "check"
    /\ post' = [post EXCEPT ![r] =
          IF ExistingBooking(post[r].body.booking_date, post[r].body.tee_time) # {}
          THEN [@ EXCEPT !.pc = "done",
                         !.response = Response(409, "This tee time is already booked")]
          ELSE [@ EXCEPT !.pc = "pricing"]]
    /\ UNCHANGED <<tee_times, course_conditions, admin_settings, memberships,
                   now, avail, del, put,
                   get, paymentVars, eventVars>>

\* lines 264-303
PostPricing(r) ==
    /\ post[r].pc = "pricing"
    /\ post' = [post EXCEPT ![r].pc = "insert",
                            ![r].bookingData =
                                <<BookingData(admin_settings, post[r].body, post[r].user)>>]
    /\ UNCHANGED <<tee_times, course_conditions, admin_settings, memberships,
                   now, avail, del, put,
                   get, paymentVars, eventVars>>

\* lines 305-322
PostInsert(r) ==
    /\ post[r].pc = "insert"
    /\ LET row == post[r].bookingData[1] IN
       IF StoreAccepts(tee_times, row)
       THEN /\ tee_times' = Append(tee_times, row)
            /\ post' = [post EXCEPT ![r].pc = "done",
                                    ![r].bookingData = <<>>,
                                    ![r].response =
                                        [status |-> 201,
                                         message |-> "Booking created successfully",
                                         errors |-> <<>>,
                                         booking |-> Len(tee_times) + 1]]
       ELSE /\ tee_times' = tee_times
            /\ post' = [post EXCEPT ![r].pc = "done",
                                    ![r].bookingData = <<>>,
                                    ![r].response = Response(500, "Failed to create booking")]
    /\ UNCHANGED <<course_conditions, admin_settings, memberships, now, avail, del, put,
                   get, paymentVars, eventVars>>

----------------------------------------------------------------------------
(* DELETE /bookings/:id *)

DelIdle == [pc |-> "idle", id |-> NoBooking, token |-> NoUser, response |-> NoResponse]

\* the difference in hours rounded to the nearest hour
HoursUntilRounded(date, time) ==
    LET d == (date * MinutesPerDay + time) - now
    IN IF d >= 0 THEN (d + 30) \div 60 ELSE 0 - ((30 - d) \div 60)

\* moment.diff(now, 'hours'): the quotient truncated towards zero
HoursUntil(date, time) ==
    LET d == (date * MinutesPerDay + time) - now
    IN IF d >= 0 THEN d \div 60 ELSE 0 - ((0 - d) \div 60)

CancellationNoticeHours == 24

\* verifyToken
DeleteStart(id, token) ==
    /\ del.pc \in {"idle", "done"}
    /\ del' = IF UserOfToken(token) = NoUser
              THEN [DelIdle EXCEPT !.pc = "done", !.id = id, !.token = token,
                                   !.response = Response(401, "Access token required")]
              ELSE [DelIdle EXCEPT !.pc = "fetch", !.id = id, !.token = token]
    /\ UNCHANGED <<tee_times, course_conditions, admin_settings, memberships,
                   now, post, avail, put,
                   get, paymentVars, eventVars>>

\* the fetch step without the ownership test of lines 426-428
DeleteFetchAnyCaller ==
    /\ del.pc = "fetch"
    /\ del' =
          IF del.id \notin 1..Len(tee_times)
          THEN [del EXCEPT !.pc = "done",
                           !.response = Response(404, "Booking not found")]
          ELSE IF HoursUntil(tee_times[del.id].booking_date, tee_times[del.id].tee_time)
                    < CancellationNoticeHours
          THEN [del EXCEPT !.pc = "done",
                           !.response = Response(400,
                               "Cannot cancel booking within 24 hours of tee time")]
          ELSE [del EXCEPT !.pc = "update"]
    /\ UNCHANGED <<tee_times, course_conditions, admin_settings, memberships,
                   now, post, avail, put,
                   get, paymentVars, eventVars>>

\* lines 405-437
DeleteFetch ==
    /\ del.pc = "fetch"
    /\ LET user == UserOfToken(del.token) IN
       del' =
          IF del.id \notin 1..Len(tee_times)
          THEN [del EXCEPT !.pc = "done",
                           !.response = Response(404, "Booking not found")]
          ELSE IF tee_times[del.id].user_id # user /\ UserRole(user) # "admin"
          THEN [del EXCEPT !.pc = "done",
                           !.response = Response(403, "Not authorized to cancel this booking")]
          ELSE IF HoursUntil(tee_times[del.id].booking_date, tee_times[del.id].tee_time)
                    < CancellationNoticeHours
          THEN [del EXCEPT !.pc = "done",
                           !.response = Response(400,
                               "Cannot cancel booking within 24 hours of tee time")]
          ELSE [del EXCEPT !.pc = "update"]
    /\ UNCHANGED <<tee_times, course_conditions, admin_settings, memberships,
                   now, post, avail, put,
                   get, paymentVars, eventVars>>

\* the update step written as a DELETE of the row
DeleteUpdateRemoving ==
    /\ del.pc = "update"
    /\ tee_times' = SubSeq(tee_times, 1, del.id - 1)
                        \o SubSeq(tee_times, del.id + 1, Len(tee_times))
    /\ del' = [del EXCEPT !.pc = "done",
                          !.response = [status |-> 200,
                                        message |-> "Booking cancelled successfully",
                                        errors |-> <<>>,
                                        booking |-> del.id]]
    /\ UNCHANGED <<course_conditions, admin_settings, memberships, now, post, avail, put,
                   get, paymentVars, eventVars>>

\* lines 439-461
DeleteUpdate ==
    /\ del.pc = "update"
    /\ tee_times' = [tee_times EXCEPT ![del.id].status = "cancelled",
                                      ![del.id].cancelled_at = now]
    /\ del' = [del EXCEPT !.pc = "done",
                          !.response = [status |-> 200,
                                        message |-> "Booking cancelled successfully",
                                        errors |-> <<>>,
                                        booking |-> del.id]]
    /\ UNCHANGED <<course_conditions, admin_settings, memberships, now, post, avail, put,
                   get, paymentVars, eventVars>>

----------------------------------------------------------------------------
(* PUT /bookings/:id *)

\* req.body: the columns the caller sends, as a record of those columns
NoUpdates == [special_requests |-> ""]

PutIdle == [pc |-> "idle", id |-> NoBooking, token |-> NoUser, updates |-> NoUpdates,
            existingBooking |-> <<>>, response |-> NoResponse]

ModificationNoticeHours == 24

\* parseFloat(cartFeeData?.setting_value || 15): the text '0' is not falsy
PutCartFeeOf(settings) ==
    IF settings.cart_rental_fee = Unset THEN DefaultCartFee ELSE settings.cart_rental_fee

\* UPDATE ... SET of the columns sent; columns the model does not keep are
\* dropped
Updated(row, updates) ==
    [c \in DOMAIN row |-> IF c \in DOMAIN updates THEN updates[c] ELSE row[c]]

\* verifyToken; the validation chains accept every body considered here
PutStart(id, updates, token) ==
    /\ put.pc \in {"idle", "done"}
    /\ put' = IF UserOfToken(token) = NoUser
              THEN [PutIdle EXCEPT !.pc = "done", !.id = id, !.token = token,
                                   !.updates = updates,
                                   !.response = Response(401, "Access token required")]
              ELSE [PutIdle EXCEPT !.pc = "fetch", !.id = id, !.token = token,
                                   !.updates = updates]
    /\ UNCHANGED <<tee_times, course_conditions, admin_settings, memberships,
                   now, post, avail, del,
                   get, paymentVars, eventVars>>

\* the fetch step without the 24-hour test of lines 361-368
PutFetchUnlocked ==
    /\ put.pc = "fetch"
    /\ LET user == UserOfToken(put.token) IN
       put' =
          IF put.id \notin 1..Len(tee_times)
          THEN [put EXCEPT !.pc = "done",
                           !.response = Response(404, "Booking not found")]
          ELSE IF tee_times[put.id].user_id # user /\ UserRole(user) # "admin"
          THEN [put EXCEPT !.pc = "done",
                           !.response = Response(403, "Not authorized to update this booking")]
          ELSE [put EXCEPT !.pc = IF "cart_rental" \in DOMAIN put.updates
                                  THEN "cartFee" ELSE "update",
                           !.existingBooking = <<tee_times[put.id]>>]
    /\ UNCHANGED <<tee_times, course_conditions, admin_settings, memberships,
                   now, post, avail, del,
                   get, paymentVars, eventVars>>

\* lines 339-368
PutFetch ==
    /\ put.pc = "fetch"
    /\ LET user == UserOfToken(put.token) IN
       put' =
          IF put.id \notin 1..Len(tee_times)
          THEN [put EXCEPT !.pc = "done",
                           !.response = Response(404, "Booking not found")]
          ELSE IF tee_times[put.id].user_id # user /\ UserRole(user) # "admin"
          THEN [put EXCEPT !.pc = "done",
                           !.response = Response(403, "Not authorized to update this booking")]
          ELSE IF HoursUntil(tee_times[put.id].booking_date, tee_times[put.id].tee_time)
                    < ModificationNoticeHours
          THEN [put EXCEPT !.pc = "done",
                           !.response = Response(400,
                               "Cannot modify booking within 24 hours of tee time")]
          ELSE [put EXCEPT !.pc = IF "cart_rental" \in DOMAIN put.updates
                                  THEN "cartFee" ELSE "update",
                           !.existingBooking = <<tee_times[put.id]>>]
    /\ UNCHANGED <<tee_times, course_conditions, admin_settings, memberships,
                   now, post, avail, del,
                   get, paymentVars, eventVars>>

\* lines 371-382
PutCartFee ==
    /\ put.pc = "cartFee"
    /\ LET cartFee == PutCartFeeOf(admin_settings)
           fee == IF put.updates.cart_rental THEN cartFee ELSE 0
       IN put' = [put EXCEPT !.pc = "update",
                             !.updates =
                                 [cart_rental_fee |-> fee,
                                  total_cart_fees |-> fee,
                                  total_amount |->
                                      put.existingBooking[1].total_green_fees + fee]
                                 @@ put.updates]
    /\ UNCHANGED <<tee_times, course_conditions, admin_settings, memberships,
                   now, post, avail, del,
                   get, paymentVars, eventVars>>

\* lines 384-398
PutUpdate ==
    /\ put.pc = "update"
    /\ LET row == Updated(tee_times[put.id], put.updates) IN
       IF StoreAccepts(tee_times, row)
       THEN /\ tee_times' = [tee_times EXCEPT ![put.id] = row]
            /\ put' = [put EXCEPT !.pc = "done",
                                  !.response = [status |-> 200,
                                                message |-> "Booking updated successfully",
                                                errors |-> <<>>,
                                                booking |-> put.id]]
       ELSE /\ tee_times' = tee_times
            /\ put' = [put EXCEPT !.pc = "done",
                                  !.response = Response(500, "Failed to update booking")]
    /\ UNCHANGED <<course_conditions, admin_settings, memberships, now, post, avail, del,
                   get, paymentVars, eventVars>>

----------------------------------------------------------------------------
(* POST /payments/create-booking-payment *)

\* an amount of the request body is a number of thousandths of a dollar
MinAmount == 500

\* Math.round(amount * 100); a DECIMAL(10,2) column rounds the same way
Cents(amount) == (amount + 5) \div 10

PayIdle == [pc |-> "idle", booking_id |-> NoBooking, amount |-> 0, token |-> NoUser,
            intent |-> NoIntent, response |-> NoResponse]

\* verifyToken, then the validation chains (amount: isFloat, min 0.50); a run
\* creates at most MaxIntents payment intents
PayStart(booking_id, amount, token) ==
    /\ pay.pc \in {"idle", "done"}
    /\ Len(payment_intents) < MaxIntents
    /\ pay' = IF UserOfToken(token) = NoUser
              THEN [PayIdle EXCEPT !.pc = "done", !.booking_id = booking_id,
                                   !.amount = amount, !.token = token,
                                   !.response = Response(401, "Access token required")]
              ELSE IF amount < MinAmount
              THEN [PayIdle EXCEPT !.pc = "done", !.booking_id = booking_id,
                                   !.amount = amount, !.token = token,
                                   !.response = Response(400, "Amount must be at least $0.50")]
              ELSE [PayIdle EXCEPT !.pc = "fetch", !.booking_id = booking_id,
                                   !.amount = amount, !.token = token]
    /\ UNCHANGED <<tee_times, course_conditions, admin_settings, memberships, now,
                   post, avail, del, put, get, payment_intents, payment_transactions,
                   hook, eventVars>>

\* lines 502-516: the booking of that id owned by the caller
PayFetch ==
    /\ pay.pc = "fetch"
    /\ LET booking == Single({i \in 1..Len(tee_times) :
                                 /\ i = pay.booking_id
                                 /\ tee_times[i].user_id = UserOfToken(pay.token)})
       IN pay' =
             IF booking = {}
             THEN [pay EXCEPT !.pc = "done",
                              !.response = Response(404, "Booking not found")]
             ELSE IF tee_times[pay.booking_id].payment_status = "paid"
             THEN [pay EXCEPT !.pc = "done",
                              !.response = Response(400, "Booking is already paid")]
             ELSE [pay EXCEPT !.pc = "intent"]
    /\ UNCHANGED <<tee_times, course_conditions, admin_settings, memberships, now,
                   post, avail, del, put, get, payment_intents, payment_transactions,
                   hook, eventVars>>

\* lines 518-528: stripe.paymentIntents.create
PayIntent ==
    /\ pay.pc = "intent"
    /\ payment_intents' =
          Append(payment_intents,
                 [amount |-> Cents(pay.amount),
                  booking_id |-> pay.booking_id,
                  user_id |-> UserOfToken(pay.token)])
    /\ pay' = [pay EXCEPT !.pc = "link", !.intent = Len(payment_intents) + 1]
    /\ UNCHANGED <<tee_times, course_conditions, admin_settings, memberships, now,
                   post, avail, del, put, get, payment_transactions, hook, eventVars>>

\* lines 530-534: the booking row gets the id of the intent
PayLink ==
    /\ pay.pc = "link"
    /\ tee_times' = [i \in 1..Len(tee_times) |->
                        IF i = pay.booking_id
                        THEN [tee_times[i] EXCEPT !.stripe_payment_intent_id = pay.intent]
                        ELSE tee_times[i]]
    /\ pay' = [pay EXCEPT !.pc = "transaction"]
    /\ UNCHANGED <<course_conditions, admin_settings, memberships, now,
                   post, avail, del, put, get, payment_intents, payment_transactions,
                   hook, eventVars>>

\* lines 536-551: the transaction row, then the answer
PayTransaction ==
    /\ pay.pc = "transaction"
    /\ payment_transactions' =
          Append(payment_transactions,
                 [amount |-> Cents(pay.amount),
                  provider_transaction_id |-> pay.intent,
                  user_id |-> UserOfToken(pay.token),
                  tee_time_id |-> pay.booking_id,
                  status |-> "pending"])
    /\ pay' = [pay EXCEPT !.pc = "done",
                          !.response = [status |-> 200, message |-> "client_secret",
                                        errors |-> <<>>, booking |-> pay.booking_id]]
    /\ UNCHANGED <<tee_times, course_conditions, admin_settings, memberships, now,
                   post, avail, del, put, get, payment_intents, hook, eventVars>>

----------------------------------------------------------------------------
(* Stripe webhook: payment outcome of a payment intent *)

HookIdle == [pc |-> "idle", type |-> "", intent |-> NoIntent]

\* UPDATE payment_transactions SET status WHERE provider_transaction_id
TransactionsWith(pi, status) ==
    [k \in 1..Len(payment_transactions) |->
        IF payment_transactions[k].provider_transaction_id = pi
        THEN [payment_transactions[k] EXCEPT !.status = status]
        ELSE payment_transactions[k]]

\* UPDATE tee_times SET payment_status WHERE id
BookingsWith(id, paymentStatus) ==
    [i \in 1..Len(tee_times) |->
        IF i = id THEN [tee_times[i] EXCEPT !.payment_status = paymentStatus]
        ELSE tee_times[i]]

\* event payment_intent.succeeded: handlePaymentSuccess up to its first await
WebhookSucceeded(pi) ==
    /\ hook.pc = "idle"
    /\ pi \in 1..Len(payment_intents)
    /\ payment_transactions' = TransactionsWith(pi, "completed")
    /\ hook' = [pc |-> "record", type |-> "payment_intent.succeeded", intent |-> pi]
    /\ UNCHANGED <<tee_times, course_conditions, admin_settings, memberships, now,
                   post, avail, del, put, get, payment_intents, pay, eventVars>>

\* event payment_intent.payment_failed: handlePaymentFailure up to its first
\* await
WebhookFailed(pi) ==
    /\ hook.pc = "idle"
    /\ pi \in 1..Len(payment_intents)
    /\ payment_transactions' = TransactionsWith(pi, "failed")
    /\ hook' = [pc |-> "record", type |-> "payment_intent.payment_failed", intent |-> pi]
    /\ UNCHANGED <<tee_times, course_conditions, admin_settings, memberships, now,
                   post, avail, del, put, get, payment_intents, pay, eventVars>>

\* the second update written to cancel the booking of a failed payment
WebhookRecordCancelling ==
    /\ hook.pc = "record"
    /\ tee_times' =
          IF hook.type = "payment_intent.succeeded"
          THEN BookingsWith(payment_intents[hook.intent].booking_id, "paid")
          ELSE [i \in 1..Len(tee_times) |->
                   IF i = payment_intents[hook.intent].booking_id
                   THEN [tee_times[i] EXCEPT !.payment_status = "failed",
                                             !.status = "cancelled"]
                   ELSE tee_times[i]]
    /\ hook' = HookIdle
    /\ UNCHANGED <<course_conditions, admin_settings, memberships, now,
                   post, avail, del, put, get, payment_intents, payment_transactions,
                   pay, eventVars>>

\* case 'tee_time' of both handlers: update payment_status where id =
\* metadata.booking_id
WebhookRecord ==
    /\ hook.pc = "record"
    /\ tee_times' =
          BookingsWith(payment_intents[hook.intent].booking_id,
                       IF hook.type = "payment_intent.succeeded" THEN "paid" ELSE "failed")
    /\ hook' = HookIdle
    /\ UNCHANGED <<course_conditions, admin_settings, memberships, now,
                   post, avail, del, put, get, payment_intents, payment_transactions,
                   pay, eventVars>>

----------------------------------------------------------------------------
(* GET /bookings/:id *)

GetIdle == [pc |-> "idle", id |-> NoBooking, token |-> NoUser, user |-> NoUser,
            response |-> NoResponse]

\* optionalAuth: req.user is set for a valid token, the request goes on anyway
GetStart(id, token) ==
    /\ get.pc \in {"idle", "done"}
    /\ get' = [GetIdle EXCEPT !.pc = "fetch", !.id = id, !.token = token,
                              !.user = UserOfToken(token)]
    /\ UNCHANGED <<tee_times, course_conditions, admin_settings, memberships, now,
                   post, avail, del, put, paymentVars, eventVars>>

\* lines 468-498
GetFetch ==
    /\ get.pc = "fetch"
    /\ get' =
          IF get.id \notin 1..Len(tee_times)
          THEN [get EXCEPT !.pc = "done",
                           !.response = Response(404, "Booking not found")]
          ELSE IF /\ tee_times[get.id].user_id # NoUser
                  /\ get.user # NoUser
                  /\ tee_times[get.id].user_id # get.user
                  /\ UserRole(get.user) # "admin"
          THEN [get EXCEPT !.pc = "done",
                           !.response = Response(403, "Not authorized to view this booking")]
          ELSE [get EXCEPT !.pc = "done",
                           !.response = [status |-> 200, message |-> "booking",
                                         errors |-> <<>>, booking |-> get.id]]
    /\ UNCHANGED <<tee_times, course_conditions, admin_settings, memberships, now,
                   post, avail, del, put, paymentVars, eventVars>>

----------------------------------------------------------------------------
(* POST /events/:id/register *)

NoEvent == Len(<<>>)

\* max_participants NULL
NoMaximum == Len(<<>>)

RegIdle == [pc |-> "idle", id |-> NoEvent, token |-> NoUser, count |-> 0,
            fee |-> 0, response |-> NoResponse]

\* registrations of the event with status registered
Registered(id) ==
    {k \in 1..Len(event_registrations) :
        /\ event_registrations[k].event_id = id
        /\ event_registrations[k].status = "registered"}

\* UNIQUE(event_id, user_id)
RegistrationAccepted(row) ==
    \A k \in 1..Len(event_registrations) :
        ~(/\ event_registrations[k].event_id = row.event_id
          /\ event_registrations[k].user_id = row.user_id)

\* verifyToken; the validation chains accept every body considered here
RegStart(r, id, token) ==
    /\ reg[r].pc = "idle"
    /\ reg' = [reg EXCEPT ![r] =
          IF UserOfToken(token) = NoUser
          THEN [RegIdle EXCEPT !.pc = "done", !.id = id, !.token = token,
                               !.response = Response(401, "Access token required")]
          ELSE [RegIdle EXCEPT !.pc = "event", !.id = id, !.token = token]]
    /\ UNCHANGED <<tee_times, course_conditions, admin_settings, memberships, now,
                   post, avail, del, put, get, paymentVars, events,
                   event_registrations>>

\* the event row, its status and its registration deadline
RegEvent(r) ==
    /\ reg[r].pc = "event"
    /\ reg' = [reg EXCEPT ![r] =
          IF reg[r].id \notin 1..Len(events)
          THEN [@ EXCEPT !.pc = "done", !.response = Response(404, "Event not found")]
          ELSE IF events[reg[r].id].status # "upcoming"
          THEN [@ EXCEPT !.pc = "done",
                         !.response = Response(400, "Event registration is closed")]
          ELSE IF /\ events[reg[r].id].registration_deadline # Unset
                  /\ now > events[reg[r].id].registration_deadline * MinutesPerDay
          THEN [@ EXCEPT !.pc = "done",
                         !.response = Response(400, "Registration deadline has passed")]
          ELSE [@ EXCEPT !.pc = "existing"]]
    /\ UNCHANGED <<tee_times, course_conditions, admin_settings, memberships, now,
                   post, avail, del, put, get, paymentVars, events,
                   event_registrations>>

\* the caller's registration for the event, with .single()
RegExisting(r) ==
    /\ reg[r].pc = "existing"
    /\ reg' = [reg EXCEPT ![r] =
          IF Single({k \in 1..Len(event_registrations) :
                        /\ event_registrations[k].event_id = reg[r].id
                        /\ event_registrations[k].user_id = UserOfToken(reg[r].token)}) # {}
          THEN [@ EXCEPT !.pc = "done",
                         !.response = Response(409,
                             "You are already registered for this event")]
          ELSE [@ EXCEPT !.pc = "count"]]
    /\ UNCHANGED <<tee_times, course_conditions, admin_settings, memberships, now,
                   post, avail, del, put, get, paymentVars, events,
                   event_registrations>>

\* currentRegistrations and the test `max_participants && length >= max`; the
\* event row is the one read at the start of the handler
RegCount(r) ==
    /\ reg[r].pc = "count"
    /\ LET count == Cardinality(Registered(reg[r].id))
           max == events[reg[r].id].max_participants
       IN reg' = [reg EXCEPT ![r] =
             IF max # NoMaximum /\ count >= max
             THEN [@ EXCEPT !.pc = "done", !.count = count,
                            !.response = Response(400, "Event is full")]
             ELSE [@ EXCEPT !.pc = IF events[reg[r].id].requires_membership
                                   THEN "membership" ELSE "insert",
                            !.count = count,
                            !.fee = events[reg[r].id].entry_fee]]
    /\ UNCHANGED <<tee_times, course_conditions, admin_settings, memberships, now,
                   post, avail, del, put, get, paymentVars, events,
                   event_registrations>>

\* requires_membership: an active membership that has not ended, .single()
RegMembership(r) ==
    /\ reg[r].pc = "membership"
    /\ reg' = [reg EXCEPT ![r] =
          IF ActiveMembership(UserOfToken(reg[r].token)) = {}
          THEN [@ EXCEPT !.pc = "done",
                         !.response = Response(403,
                             "Active membership required for this event")]
          ELSE [@ EXCEPT !.pc = IF events[reg[r].id].member_discount > 0
                                THEN "fee" ELSE "insert"]]
    /\ UNCHANGED <<tee_times, course_conditions, admin_settings, memberships, now,
                   post, avail, del, put, get, paymentVars, events,
                   event_registrations>>

\* the member discount: any membership with status active, .single()
RegFee(r) ==
    /\ reg[r].pc = "fee"
    /\ LET user == UserOfToken(reg[r].token)
           membership == Single({m \in memberships :
                                    m.user_id = user /\ m.status = "active"})
           event == events[reg[r].id]
       IN reg' = [reg EXCEPT ![r].pc = "insert",
                             ![r].fee = IF membership # {}
                                        THEN (event.entry_fee * (100 - event.member_discount))
                                                \div 100
                                        ELSE event.entry_fee]
    /\ UNCHANGED <<tee_times, course_conditions, admin_settings, memberships, now,
                   post, avail, del, put, get, paymentVars, events,
                   event_registrations>>

\* the insert of the registration row
RegInsert(r) ==
    /\ reg[r].pc = "insert"
    /\ LET row == [event_id |-> reg[r].id,
                   user_id |-> UserOfToken(reg[r].token),
                   registration_fee |-> reg[r].fee,
                   payment_status |-> IF reg[r].fee > 0 THEN "pending" ELSE "paid",
                   status |-> "registered"]
       IN IF RegistrationAccepted(row)
          THEN /\ event_registrations' = Append(event_registrations, row)
               /\ reg' = [reg EXCEPT ![r].pc = "participants"]
          ELSE /\ event_registrations' = event_registrations
               /\ reg' = [reg EXCEPT ![r].pc = "done",
                                     ![r].response =
                                         Response(500, "Failed to register for event")]
    /\ UNCHANGED <<tee_times, course_conditions, admin_settings, memberships, now,
                   post, avail, del, put, get, paymentVars, events>>

\* events.current_participants = currentRegistrations.length + 1, then 201
RegParticipants(r) ==
    /\ reg[r].pc = "participants"
    /\ events' = [events EXCEPT ![reg[r].id].current_participants = reg[r].count + 1]
    /\ reg' = [reg EXCEPT ![r].pc = "done",
                          ![r].response = Response(201, "Event registration successful")]
    /\ UNCHANGED <<tee_times, course_conditions, admin_settings, memberships, now,
                   post, avail, del, put, get, paymentVars, event_registrations>>

----------------------------------------------------------------------------
(* The clock *)

\* the clock starts at noon of day 10
StartOfClock == 10 * MinutesPerDay + 12 * 60

Tick ==
    /\ now < StartOfClock + MaxTicks
    /\ now' = now + 1
    /\ UNCHANGED <<tee_times, course_conditions, admin_settings, memberships,
                   post, avail, del, put,
                   get, paymentVars, eventVars>>

----------------------------------------------------------------------------
(* Stores and inputs the specifications start from *)

Day(k) == (StartOfClock \div MinutesPerDay) + k

\* a booking row as POST /bookings writes it, with the seed rates
Row(user, date, time, status) ==
    [BookingData(SeedSettings,
                 [booking_date |-> date, date_minutes |-> 0, tee_time |-> time,
                  number_of_players |-> 2, cart_rental |-> FALSE, green_fee_type |-> "9_holes"],
                 user)
     EXCEPT !.status = status]

Settings(open, close, interval) ==
    [SeedSettings EXCEPT !.course_open_time = open,
                         !.course_close_time = close,
                         !.tee_time_interval = interval]

AvailDates == {Day(1), Day(2)}

AvailSettings ==
    {SeedSettings,
     Settings(<<>>, <<>>, Unset),
     Settings(<<8, 0>>, <<9, 0>>, 25),
     Settings(<<8, 30>>, <<10, 0>>, 0),
     Settings(<<9, 0>>, <<9, 30>>, 45),
     Settings(<<22, 0>>, <<23, 59>>, 60)}

AvailTeeTimes ==
    {<<>>,
     <<Row(NoUser, Day(1), <<9, 0>>, "confirmed")>>,
     <<Row(NoUser, Day(1), <<9, 0>>, "cancelled")>>,
     <<Row("alice", Day(1), <<9, 0>>, "completed"),
       Row("bob", Day(1), <<8, 50>>, "no_show")>>,
     <<Row("alice", Day(1), <<9, 0>>, "cancelled"),
       Row("bob", Day(1), <<9, 0>>, "confirmed"),
       Row("bob", Day(2), <<8, 0>>, "confirmed")>>}

OverallConditions == {"good", "closed"}

HolesInputs == {NoHoles, 0, 9}

\* no payment intent has been created
NoPayments ==
    /\ payment_intents = <<>>
    /\ payment_transactions = <<>>

\* no event has been created
NoEvents ==
    /\ events = <<>>
    /\ event_registrations = <<>>

InitRequests ==
    /\ post = [r \in Reqs |-> PostIdle]
    /\ avail = AvailIdle
    /\ del = DelIdle
    /\ put = PutIdle
    /\ get = GetIdle
    /\ pay = PayIdle
    /\ hook = HookIdle
    /\ reg = [r \in Reqs |-> RegIdle]

InitAvail ==
    /\ tee_times \in AvailTeeTimes
    /\ course_conditions = {}
    /\ admin_settings \in AvailSettings
    /\ memberships = {}
    /\ now = StartOfClock
    /\ InitRequests
    /\ NoPayments
    /\ NoEvents

NextAvail ==
    \/ \E date \in AvailDates : AvailStart(date)
    \/ AvailBookings
    \/ AvailConditions
    \/ \E date \in AvailDates, overall \in OverallConditions, holes \in HolesInputs :
          PostCourseConditions(date, overall, holes)

SpecAvail == InitAvail /\ [][NextAvail]_vars

----------------------------------------------------------------------------
(* Properties of the availability calculation *)

\* the number of k >= 0 with open + k * interval < close
SlotCount(open, close, interval) ==
    IF open < close THEN (close - open + interval - 1) \div interval ELSE 0

\* open, open + interval, open + 2 * interval, ... strictly before close
ExpectedSlots(open, close, interval) ==
    [k \in 1..SlotCount(open, close, interval) |->
        LET m == open + (k - 1) * interval IN <<m \div 60, m % 60>>]

AvailOpen == ParseHHmm(OpenTimeOf(admin_settings))

AvailClose == ParseHHmm(CloseTimeOf(admin_settings))

\* a confirmed booking of the store occupies (date, the time of the text)
ConfirmedAt(date, time) ==
    \E i \in ConfirmedOn(date) : tee_times[i].tee_time = time[1] * 60 + time[2]

\* C4: the slot list of GET /bookings/availability is exactly open,
\* open + interval, open + 2 * interval, ... strictly before close, strictly
\* ascending without duplicates, and the answer lists these times in order.
C4_SlotSequence ==
    /\ avail.pc # "idle" =>
          /\ avail.timeSlots =
                ExpectedSlots(AvailOpen, AvailClose, IntervalOf(admin_settings))
          /\ \A i, j \in 1..Len(avail.timeSlots) :
                i < j => ParseHHmm(avail.timeSlots[i]) < ParseHHmm(avail.timeSlots[j])
          /\ \A i \in 1..Len(avail.timeSlots) :
                /\ AvailOpen <= ParseHHmm(avail.timeSlots[i])
                /\ ParseHHmm(avail.timeSlots[i]) < AvailClose
    /\ avail.pc = "done" =>
          /\ Len(avail.time_slots) = Len(avail.timeSlots)
          /\ \A k \in 1..Len(avail.time_slots) :
                avail.time_slots[k].time = avail.timeSlots[k]

C4_Witness ==
    /\ avail.pc = "done"
    /\ OpenTimeOf(admin_settings) = <<7, 0>>
    /\ CloseTimeOf(admin_settings) = <<19, 0>>
    /\ IntervalOf(admin_settings) = 15
    /\ Len(avail.time_slots) = 48
    /\ avail.time_slots[1].time = <<7, 0>>
    /\ avail.time_slots[48].time = <<18, 45>>

\* C5: with no course-condition row for the date, every generated slot
\* without a confirmed booking is reported available.
C5_DefaultOpen ==
    (avail.pc = "done" /\ avail.conditions = {}) =>
        \A k \in 1..Len(avail.time_slots) :
            ~ConfirmedAt(avail.date, avail.time_slots[k].time)
                => avail.time_slots[k].available

\* C6: a condition row that is closed or has no holes available makes every
\* slot of the date unavailable, whatever the bookings.
C6_ClosedForcesUnavailable ==
    (/\ avail.pc = "done"
     /\ \E c \in avail.conditions :
           c.overall_condition = "closed" \/ c.holes_available = 0)
    => \A k \in 1..Len(avail.time_slots) : ~avail.time_slots[k].available

C6_Witness ==
    /\ avail.pc = "done"
    /\ \E c \in avail.conditions :
          c.overall_condition = "good" /\ c.holes_available = 0
    /\ Len(avail.time_slots) > 0
    /\ \E k \in 1..Len(avail.time_slots) :
          ~ConfirmedAt(avail.date, avail.time_slots[k].time)
    /\ \E k \in 1..Len(avail.time_slots) :
          ConfirmedAt(avail.date, avail.time_slots[k].time)

\* C7: with an open course a slot is reported unavailable exactly when a
\* confirmed booking exists at that date and time.
C7_UnavailableIffConfirmed ==
    (/\ avail.pc = "done"
     /\ \E c \in avail.conditions :
           c.overall_condition # "closed" /\ c.holes_available > 0)
    => \A k \in 1..Len(avail.time_slots) :
          (~avail.time_slots[k].available)
             <=> ConfirmedAt(avail.date, avail.time_slots[k].time)

----------------------------------------------------------------------------
(* One admission at a time, over varied stores and requests *)

Membership(user, status, endDate) ==
    [user_id |-> user, status |-> status, end_date |-> endDate]

Conditions(date, overall, holes) ==
    [condition_date |-> date, overall_condition |-> overall, holes_available |-> holes]

\* alice holds an active membership, bob's has expired
SeedMemberships ==
    {Membership("alice", "active", Day(300)),
     Membership("bob", "expired", Day(0 - 5))}

AdmitTeeTimes ==
    {<<>>,
     <<Row("bob", Day(30), <<9, 0>>, "confirmed")>>,
     <<Row("bob", Day(30), <<9, 0>>, "cancelled")>>}

AdmitConditions ==
    {{},
     {Conditions(Day(30), "good", 9)},
     {Conditions(Day(30), "closed", 9)},
     {Conditions(Day(30), "good", 0)}}

AdmitSettings ==
    {SeedSettings, [SeedSettings EXCEPT !.member_booking_advance_days = 60]}

AdmitBodies ==
    [booking_date : {Day(0 - 1), Day(0), Day(30), Day(31), Day(60), Day(61)},
     date_minutes : {0},
     tee_time : {<<9, 0>>, <<9, 7>>, <<6, 45>>, <<19, 0>>, <<25, 0>>},
     number_of_players : {2, 5},
     cart_rental : BOOLEAN,
     green_fee_type : {"9_holes", "all_day", "18_holes"}]

AdmitTokens == {NoUser, "alice", "bob"}

InitAdmit ==
    /\ tee_times \in AdmitTeeTimes
    /\ course_conditions \in AdmitConditions
    /\ admin_settings \in AdmitSettings
    /\ memberships = SeedMemberships
    /\ now = StartOfClock
    /\ InitRequests
    /\ NoPayments
    /\ NoEvents

NextAdmit ==
    \/ \E body \in AdmitBodies, token \in AdmitTokens : PostStart(1, body, token)
    \/ PostValidate(1)
    \/ PostAuth(1)
    \/ PostCheck(1)
    \/ PostPricing(1)
    \/ PostInsert(1)

SpecAdmit == InitAdmit /\ [][NextAdmit]_vars

----------------------------------------------------------------------------
(* Properties of one admission *)

\* what the availability calculation reports for (date, time) over the store
ReportedAvailable(date, time) ==
    LET timeSlots == TimeSlotsOf(admin_settings) IN
    \E k \in 1..Len(timeSlots) :
        /\ timeSlots[k] = time
        /\ SlotAvailable(time, BookedTimesOn(date), ConditionsOn(date))

\* the store's condition row closes the date
ClosedOn(date) ==
    \E c \in course_conditions :
        /\ c.condition_date = date
        /\ (c.overall_condition = "closed" \/ c.holes_available = 0)

Admitted(r) == post[r].pc = "done" /\ post[r].response.status = 201

\* C8: a valid in-window request passes the admission's availability check
\* exactly when the availability calculation over the same store reports the
\* slot available; no request passes it for a closed date.
C8_AdmitIffAvailable ==
    [][\A r \in Reqs :
          (post[r].pc = "check" /\ post'[r].pc # "check") =>
              /\ (post'[r].pc = "pricing") <=>
                    ReportedAvailable(post[r].body.booking_date, post[r].body.tee_time)
              /\ ClosedOn(post[r].body.booking_date) => post'[r].pc # "pricing"]_vars

\* C9: every admitted booking's tee_time is a member of the generated slot
\* sequence.
C9_OnSlotGrid ==
    \A r \in Reqs :
        Admitted(r) =>
            \E k \in 1..Len(TimeSlotsOf(admin_settings)) :
                TimeSlotsOf(admin_settings)[k] = post[r].body.tee_time

WellFormed(body) ==
    /\ TeeTimeMatches(body.tee_time)
    /\ body.number_of_players \in 1..4
    /\ body.green_fee_type \in {"9_holes", "all_day"}

\* C10: a member with a 60-day window asking for today + 31 and a free slot
\* is admitted; a guest asking for the same date is refused with the advance
\* window error of 30 days.
C10_MemberWindow ==
    \A r \in Reqs :
        (post[r].pc = "done" /\ post[r].body.booking_date = Today + 31) =>
            /\ (/\ post[r].token # NoUser
                /\ ActiveMembership(UserOfToken(post[r].token)) # {}
                /\ MemberAdvanceDays(admin_settings) = 60
                /\ WellFormed(post[r].body)
                /\ ~ConfirmedAt(post[r].body.booking_date, post[r].body.tee_time))
               => post[r].response.status = 201
            /\ post[r].token = NoUser =>
                  /\ post[r].response.status = 400
                  /\ \E k \in 1..Len(post[r].response.errors) :
                        /\ post[r].response.errors[k].param = "booking_date"
                        /\ post[r].response.errors[k].limit = 30

----------------------------------------------------------------------------
(* Concurrent admissions and cancellations *)

RaceBodies ==
    [booking_date : {Day(2)},
     date_minutes : {0},
     tee_time : {<<9, 0>>, <<9, 15>>},
     number_of_players : {2},
     cart_rental : {FALSE},
     green_fee_type : {"9_holes"}]

RaceTokens == {"alice"}

CancelTokens == {"admin"}

InitRace ==
    /\ tee_times = <<>>
    /\ course_conditions = {}
    /\ admin_settings = SeedSettings
    /\ memberships = SeedMemberships
    /\ now = StartOfClock
    /\ InitRequests
    /\ NoPayments
    /\ NoEvents

NextRace ==
    \/ \E r \in Reqs, body \in RaceBodies, token \in RaceTokens : PostStart(r, body, token)
    \/ \E r \in Reqs : PostValidate(r)
    \/ \E r \in Reqs : PostAuth(r)
    \/ \E r \in Reqs : PostCheck(r)
    \/ \E r \in Reqs : PostPricing(r)
    \/ \E r \in Reqs : PostInsert(r)
    \/ \E id \in Reqs, token \in CancelTokens : DeleteStart(id, token)
    \/ DeleteFetch
    \/ DeleteUpdate

SpecRace == InitRace /\ [][NextRace]_vars

----------------------------------------------------------------------------
(* Properties of concurrent admissions *)

\* confirmed rows of the store at (date, time of the day in minutes)
ConfirmedRows(date, time) ==
    {i \in 1..Len(tee_times) :
        /\ tee_times[i].booking_date = date
        /\ tee_times[i].tee_time = time
        /\ tee_times[i].status = "confirmed"}

\* C1: at most one confirmed booking exists for any (booking_date, tee_time).
C1_AtMostOneConfirmed ==
    \A i, j \in 1..Len(tee_times) :
        (/\ tee_times[i].status = "confirmed"
         /\ tee_times[j].status = "confirmed"
         /\ tee_times[i].booking_date = tee_times[j].booking_date
         /\ tee_times[i].tee_time = tee_times[j].tee_time)
        => i = j

AlreadyBooked == Response(409, "This tee time is already booked")

SameSlot(r1, r2) ==
    /\ post[r1].body.booking_date = post[r2].body.booking_date
    /\ post[r1].body.tee_time = post[r2].body.tee_time

\* C2: of the admissions answered for one free slot, with no cancellation,
\* exactly one is answered with the created booking and every other one with
\* the AlreadyBooked error.
C2_ExactlyOneWins ==
    \A r \in Reqs :
        (/\ post[r].pc = "done"
         /\ \A i \in 1..Len(tee_times) : tee_times[i].status = "confirmed")
        => /\ \E w \in Reqs : Admitted(w) /\ SameSlot(w, r)
           /\ \A w1, w2 \in Reqs :
                 (Admitted(w1) /\ Admitted(w2) /\ SameSlot(w1, w2)) => w1 = w2
           /\ ~Admitted(r) => post[r].response = AlreadyBooked

\* C3: an admission that finds the slot taken at the insert step is answered
\* with the AlreadyBooked error of the pre-insert check.
C3_RaceLossIsAlreadyBooked ==
    [][\A r \in Reqs :
          (/\ post[r].pc = "insert"
           /\ post'[r].pc = "done"
           /\ ConfirmedRows(post[r].body.booking_date,
                            TimeIn(post[r].body.tee_time)) # {})
          => post'[r].response = AlreadyBooked]_vars

----------------------------------------------------------------------------
(* One admission around the edges of the advance-booking window *)

\* the first minute, noon and the last minute of day 10
WindowClocks ==
    {Day(0) * MinutesPerDay, StartOfClock, Day(1) * MinutesPerDay - 1}

\* booking_date texts: a date alone, or a date with the time 18:00
WindowBodies ==
    [booking_date : {Day(0 - 1), Day(0), Day(29), Day(30), Day(31)},
     date_minutes : {0, 18 * 60},
     tee_time : {<<9, 0>>},
     number_of_players : {2},
     cart_rental : {FALSE},
     green_fee_type : {"9_holes"}]

InitWindow ==
    /\ tee_times \in AdmitTeeTimes
    /\ course_conditions = {}
    /\ admin_settings \in AdmitSettings
    /\ memberships = SeedMemberships
    /\ now \in WindowClocks
    /\ InitRequests
    /\ NoPayments
    /\ NoEvents

NextWindow ==
    \/ \E body \in WindowBodies, token \in AdmitTokens : PostStart(1, body, token)
    \/ PostValidate(1)
    \/ PostAuth(1)
    \/ PostCheck(1)
    \/ PostPricing(1)
    \/ PostInsert(1)

SpecWindow == InitWindow /\ [][NextWindow]_vars

\* the booking_date chain of the request has reported an error
DateRejected(r) ==
    \E k \in 1..Len(post[r].errors) : post[r].errors[k].param = "booking_date"

\* C11: no booking is admitted with a date before today or later than today
\* + maxAdvanceDays, the limit applied to the caller; a date equal to today
\* or to today + maxAdvanceDays is not rejected by the date check.
C11_AdvanceWindow ==
    \A r \in Reqs :
        /\ Admitted(r) =>
              /\ post[r].body.booking_date >= Today
              /\ post[r].body.booking_date <= Today + post[r].maxAdvanceDays
        /\ (/\ post[r].pc \notin {"idle", "validate"}
            /\ post[r].body.booking_date \in {Today, Today + post[r].maxAdvanceDays})
           => ~DateRejected(r)

----------------------------------------------------------------------------
(* Admin settings routes *)

\* PUT /admin/settings/:key: update ... eq(setting_key).single(); a missing
\* row is an error and nothing is written
PutSetting(key, value) ==
    /\ admin_settings' = IF admin_settings[key] # Unset
                         THEN [admin_settings EXCEPT ![key] = value]
                         ELSE admin_settings
    /\ UNCHANGED <<tee_times, course_conditions, memberships, now, post, avail, del, put,
                   get, paymentVars, eventVars>>

\* POST /admin/settings: insert; setting_key is unique
PostSetting(key, value) ==
    /\ admin_settings' = IF admin_settings[key] = Unset
                         THEN [admin_settings EXCEPT ![key] = value]
                         ELSE admin_settings
    /\ UNCHANGED <<tee_times, course_conditions, memberships, now, post, avail, del, put,
                   get, paymentVars, eventVars>>

----------------------------------------------------------------------------
(* The booking_date validator run for a given req.user *)

\* lines 15-56 with req.user = reqUser, as after an authenticating middleware
BookingDateValidator(r, body, reqUser) ==
    /\ post[r].pc \in {"idle", "validated"}
    /\ post' = [post EXCEPT ![r] =
          [PostIdle EXCEPT !.pc = "validated",
                           !.body = body,
                           !.user = reqUser,
                           !.maxAdvanceDays = MaxAdvanceDays(reqUser),
                           !.errors = DateErrors(MomentOfDate(body), reqUser)]]
    /\ UNCHANGED <<tee_times, course_conditions, admin_settings, memberships,
                   now, avail, del, put,
                   get, paymentVars, eventVars>>

ValidatorMemberships ==
    {{},
     SeedMemberships,
     {Membership("alice", "active", Day(0))},
     {Membership("alice", "active", Day(0 - 1))},
     {Membership("alice", "suspended", Day(300))},
     {Membership("alice", "cancelled", Day(300))},
     {Membership("alice", "expired", Day(300)), Membership("alice", "cancelled", Day(200))},
     {Membership("alice", "active", Day(300)), Membership("alice", "active", Day(200))}}

\* values an admin can store for member_booking_advance_days
ValidatorDays == {0, 10, 30, 90}

ValidatorBodies ==
    [booking_date : {Day(0), Day(10), Day(11), Day(30), Day(31), Day(60), Day(61)},
     date_minutes : {0},
     tee_time : {<<9, 0>>},
     number_of_players : {2},
     cart_rental : {FALSE},
     green_fee_type : {"9_holes"}]

ValidatorUsers == {NoUser, "alice", "bob"}

InitValidator ==
    /\ tee_times = <<>>
    /\ course_conditions = {}
    /\ admin_settings = SeedSettings
    /\ memberships \in ValidatorMemberships
    /\ now = StartOfClock
    /\ InitRequests
    /\ NoPayments
    /\ NoEvents

NextValidator ==
    \/ \E value \in ValidatorDays : PostSetting("member_booking_advance_days", value)
    \/ \E value \in ValidatorDays : PutSetting("member_booking_advance_days", value)
    \/ \E body \in ValidatorBodies, reqUser \in ValidatorUsers :
          BookingDateValidator(1, body, reqUser)

SpecValidator == InitValidator /\ [][NextValidator]_vars

\* some membership of the user is active and has not ended
Qualifies(user) ==
    \E m \in memberships :
        m.user_id = user /\ m.status = "active" /\ m.end_date >= Today

C13_GuestWindowUnlessQualified ==
    \A r \in Reqs :
        (post[r].pc = "validated" /\ (post[r].user = NoUser \/ ~Qualifies(post[r].user)))
            => /\ post[r].maxAdvanceDays = DefaultGuestAdvanceDays
               /\ post[r].body.booking_date > Today + DefaultGuestAdvanceDays
                     => DateRejected(r)
               /\ post[r].body.booking_date \in Today..(Today + DefaultGuestAdvanceDays)
                     => ~DateRejected(r)

C13_Witness ==
    /\ post[1].pc = "validated"
    /\ post[1].user = "alice"
    /\ \E m \in memberships :
          m.user_id = "alice" /\ m.status = "suspended" /\ m.end_date >= Today
    /\ MemberAdvanceDays(admin_settings) = 90
    /\ post[1].body.booking_date = Today + 31
    /\ DateRejected(1)

----------------------------------------------------------------------------
(* One admission over varied rates *)

\* rates an admin can store with PUT /admin/settings/:key
PricingSettings ==
    {[SeedSettings EXCEPT !.green_fee_9_holes = g9,
                          !.green_fee_all_day = gall,
                          !.cart_rental_fee = cart] :
        g9 \in {0, 10, 25}, gall \in {0, 15}, cart \in {0 - 10, 0, 15, 20}}

PricingBodies ==
    [booking_date : {Day(2)},
     date_minutes : {0},
     tee_time : {<<9, 0>>},
     number_of_players : {1, 2, 4},
     cart_rental : BOOLEAN,
     green_fee_type : {"9_holes", "all_day"}]

PricingTokens == {NoUser, "alice"}

InitPricing ==
    /\ tee_times = <<>>
    /\ course_conditions = {}
    /\ admin_settings \in PricingSettings
    /\ memberships = SeedMemberships
    /\ now = StartOfClock
    /\ InitRequests
    /\ NoPayments
    /\ NoEvents

NextPricing ==
    \/ \E body \in PricingBodies, token \in PricingTokens : PostStart(1, body, token)
    \/ PostValidate(1)
    \/ PostAuth(1)
    \/ PostCheck(1)
    \/ PostPricing(1)
    \/ PostInsert(1)

SpecPricing == InitPricing /\ [][NextPricing]_vars

\* the row created by the admission of request r
AdmittedRow(r) == tee_times[post[r].response.booking]

\* the configured value of a rate, the code's default when no row exists
ConfiguredRate(v, d) == IF v = Unset THEN d ELSE v

ConfiguredGreenFee(feeType) ==
    IF feeType = "9_holes"
    THEN ConfiguredRate(admin_settings.green_fee_9_holes, DefaultGreenFee9)
    ELSE ConfiguredRate(admin_settings.green_fee_all_day, DefaultGreenFeeAllDay)

ConfiguredCartFee == ConfiguredRate(admin_settings.cart_rental_fee, DefaultCartFee)

\* C14: every admitted booking is stored with total_green_fees = configured
\* rate of its fee type x players, total_cart_fees = the configured cart rate
\* when a cart is rented and 0 otherwise, and total_amount = their sum, for
\* every configured non-negative rate.
C14_StoredAmounts ==
    \A r \in Reqs :
        (/\ Admitted(r)
         /\ ConfiguredGreenFee(post[r].body.green_fee_type) >= 0
         /\ ConfiguredCartFee >= 0)
        => /\ AdmittedRow(r).total_green_fees =
                 ConfiguredGreenFee(post[r].body.green_fee_type)
                    * post[r].body.number_of_players
           /\ AdmittedRow(r).total_cart_fees =
                 (IF post[r].body.cart_rental THEN ConfiguredCartFee ELSE 0)
           /\ AdmittedRow(r).total_amount =
                 AdmittedRow(r).total_green_fees + AdmittedRow(r).total_cart_fees

\* C15: every booking emitted by a successful admission has status confirmed,
\* payment_status pending when total_amount > 0 and paid when total_amount = 0.
C15_PaymentStatusOfTotal ==
    \A r \in Reqs :
        Admitted(r) =>
            /\ AdmittedRow(r).status = "confirmed"
            /\ AdmittedRow(r).total_amount > 0 => AdmittedRow(r).payment_status = "pending"
            /\ AdmittedRow(r).total_amount = 0 => AdmittedRow(r).payment_status = "paid"

----------------------------------------------------------------------------
(* Cancellations while the clock advances *)

\* bookings 24 hours and 1 minute, 24 hours and 3 minutes, 30 hours and 54
\* hours after the start of the clock; the third has no owner
CancelTeeTimes ==
    <<Row("alice", Day(1), <<12, 1>>, "confirmed"),
      Row("bob", Day(1), <<12, 3>>, "confirmed"),
      Row(NoUser, Day(1), <<18, 0>>, "confirmed"),
      Row("bob", Day(2), <<18, 0>>, "confirmed")>>

\* ids of the four bookings and one id of no booking
CancelIds == 1..(Len(CancelTeeTimes) + 1)

CancelCallers == {NoUser, "alice", "bob", "admin"}

\* values an admin can store for cancellation_hours
CancelHours == {12, 24, 48}

InitCancel ==
    /\ tee_times = CancelTeeTimes
    /\ course_conditions = {}
    /\ admin_settings = SeedSettings
    /\ memberships = SeedMemberships
    /\ now = StartOfClock
    /\ InitRequests
    /\ NoPayments
    /\ NoEvents

NextCancel ==
    \/ \E id \in CancelIds, token \in CancelCallers : DeleteStart(id, token)
    \/ DeleteFetch
    \/ DeleteUpdate
    \/ \E value \in CancelHours : PutSetting("cancellation_hours", value)
    \/ Tick

SpecCancel == InitCancel /\ [][NextCancel]_vars

\* the caller of the DELETE request owns booking i or is an admin
CallerMayCancel(i) ==
    LET user == UserOfToken(del.token) IN
    /\ user # NoUser
    /\ (tee_times[i].user_id = user \/ UserRole(user) = "admin")

\* C16: DELETE /bookings/:id changes a booking's status to cancelled only for
\* the owner or an admin; any other caller is rejected and the store is
\* unchanged; a booking without owner is cancelled only by an admin.
C16_OnlyOwnerOrAdminCancels ==
    [][/\ \A i \in 1..Len(tee_times) :
             (tee_times'[i] # tee_times[i]) =>
                 /\ i = del.id
                 /\ CallerMayCancel(i)
                 /\ tee_times[i].user_id = NoUser => UserRole(UserOfToken(del.token)) = "admin"
       /\ (/\ del.pc # "done"
           /\ del'.pc = "done"
           /\ del.id \in 1..Len(tee_times)
           /\ ~CallerMayCancel(del.id))
          => /\ del'.response.status \in {401, 403}
             /\ tee_times' = tee_times]_vars

C16_Witness ==
    /\ del.pc = "done"
    /\ del.response.status = 403
    /\ del.token = "bob"
    /\ tee_times[del.id].user_id = NoUser
    /\ tee_times[del.id].status = "confirmed"
    /\ \E i \in 1..Len(tee_times) :
          tee_times[i].user_id = "bob" /\ tee_times[i].status = "cancelled"

\* minutes from now until the tee time of booking i
MinutesUntil(i) ==
    (tee_times[i].booking_date * MinutesPerDay + tee_times[i].tee_time) - now

\* C17: a cancellation by an entitled caller decided when 24 hours minus 1
\* minute remain is rejected and leaves the booking unchanged; one decided
\* when 24 hours plus 1 minute remain goes on to cancel the booking.
C17_WindowEdges ==
    [][/\ (/\ del.pc = "fetch"
           /\ del.id \in 1..Len(tee_times)
           /\ CallerMayCancel(del.id)
           /\ del'.pc # "fetch")
          => /\ MinutesUntil(del.id) = 24 * 60 - 1 =>
                   /\ del'.pc = "done"
                   /\ del'.response.status = 400
                   /\ tee_times' = tee_times
             /\ MinutesUntil(del.id) = 24 * 60 + 1 => del'.pc = "update"
       /\ (del.pc = "update" /\ del'.pc # "update")
          => /\ del'.response.status = 200
             /\ tee_times'[del.id].status = "cancelled"]_vars

\* booking 1 was cancelled with 24 hours and 1 minute remaining and the
\* cancellation of booking 2 was refused with 24 hours less 1 minute remaining
C17_Witness ==
    /\ tee_times[1].status = "cancelled"
    /\ tee_times[1].cancelled_at =
          (tee_times[1].booking_date * MinutesPerDay + tee_times[1].tee_time)
             - (24 * 60 + 1)
    /\ del.pc = "done"
    /\ del.id = 2
    /\ del.response.status = 400
    /\ MinutesUntil(2) = 24 * 60 - 1
    /\ tee_times[2].status = "confirmed"

\* the configured cancellation_hours, 24 when the row is missing
ConfiguredCancellationHours ==
    ConfiguredRate(admin_settings.cancellation_hours, CancellationNoticeHours)

\* C18: the window DELETE /bookings/:id enforces is the configured
\* cancellation_hours H: a cancellation by an entitled caller is rejected
\* exactly when fewer than H hours remain until the tee time.
C18_ConfiguredWindow ==
    [][(/\ del.pc = "fetch"
        /\ del.id \in 1..Len(tee_times)
        /\ CallerMayCancel(del.id)
        /\ del'.pc # "fetch")
       => ((del'.pc = "done" /\ del'.response.status = 400)
             <=> MinutesUntil(del.id) < ConfiguredCancellationHours * 60)]_vars

----------------------------------------------------------------------------
(* The life of a booking: admission, update, cancellation, payment outcome *)

\* alice's confirmed booking, for which she has created a payment intent, and
\* bob's booking cancelled an hour before the start of the clock
LifecycleTeeTimes ==
    <<[Row("alice", Day(2), <<9, 0>>, "confirmed") EXCEPT !.stripe_payment_intent_id = 1],
      [Row("bob", Day(3), <<10, 0>>, "cancelled") EXCEPT !.cancelled_at = StartOfClock - 60]>>

\* the payment intent alice has created for her booking, for its full amount
LifecycleIntents ==
    <<[amount |-> LifecycleTeeTimes[1].total_amount * 100,
       booking_id |-> 1,
       user_id |-> "alice"]>>

LifecycleTransactions ==
    <<[amount |-> LifecycleIntents[1].amount,
       provider_transaction_id |-> 1,
       user_id |-> "alice",
       tee_time_id |-> 1,
       status |-> "pending"]>>

LifecycleBodies ==
    [booking_date : {Day(2)},
     date_minutes : {0},
     tee_time : {<<9, 15>>},
     number_of_players : {2},
     cart_rental : {FALSE},
     green_fee_type : {"9_holes"}]

LifecycleIds == 1..Len(LifecycleTeeTimes)

\* bodies of PUT /bookings/:id
LifecycleUpdates ==
    {[cart_rental |-> TRUE], [status |-> "confirmed"], [status |-> "completed"]}

LifecycleOwners == {"alice"}

InitLifecycle ==
    /\ tee_times = LifecycleTeeTimes
    /\ course_conditions = {}
    /\ admin_settings = SeedSettings
    /\ memberships = SeedMemberships
    /\ now = StartOfClock
    /\ InitRequests
    /\ payment_intents = LifecycleIntents
    /\ payment_transactions = LifecycleTransactions
    /\ NoEvents

NextLifecycle ==
    \/ \E body \in LifecycleBodies : PostStart(1, body, NoUser)
    \/ PostValidate(1)
    \/ PostAuth(1)
    \/ PostCheck(1)
    \/ PostPricing(1)
    \/ PostInsert(1)
    \/ \E id \in LifecycleIds, token \in CancelTokens : DeleteStart(id, token)
    \/ DeleteFetch
    \/ DeleteUpdate
    \/ \E id \in LifecycleIds, updates \in LifecycleUpdates, token \in LifecycleOwners :
          PutStart(id, updates, token)
    \/ PutFetch
    \/ PutCartFee
    \/ PutUpdate
    \/ WebhookSucceeded(1)
    \/ WebhookFailed(1)
    \/ WebhookRecord

SpecLifecycle == InitLifecycle /\ [][NextLifecycle]_vars

C20_TerminalStatus ==
    [][\A i \in 1..Len(tee_times) :
          tee_times[i].status # "confirmed" =>
              tee_times'[i].status = tee_times[i].status]_vars

----------------------------------------------------------------------------
(* Payments of a booking and their notifications *)

\* alice's booking of 20 dollars, her cancelled booking and bob's booking
PaymentTeeTimes ==
    <<Row("alice", Day(2), <<9, 0>>, "confirmed"),
      [Row("alice", Day(3), <<9, 0>>, "cancelled") EXCEPT !.cancelled_at = StartOfClock - 60],
      Row("bob", Day(2), <<10, 0>>, "confirmed")>>

InitPayment ==
    /\ tee_times = PaymentTeeTimes
    /\ course_conditions = {}
    /\ admin_settings = SeedSettings
    /\ memberships = SeedMemberships
    /\ now = StartOfClock
    /\ InitRequests
    /\ NoPayments
    /\ NoEvents

NextPayment ==
    \* alice's confirmed booking and bob's booking; 0.10, 0.50 and 20.00
    \* dollars; no token and alice's token
    \/ \E id \in {1, 3}, amount \in {100, 500, 20000}, token \in {NoUser, "alice"} :
          PayStart(id, amount, token)
    \/ PayFetch
    \/ PayIntent
    \/ PayLink
    \/ PayTransaction
    \/ \E pi \in 1..MaxIntents : WebhookSucceeded(pi)
    \/ \E pi \in 1..MaxIntents : WebhookFailed(pi)
    \/ WebhookRecord

SpecPayment == InitPayment /\ [][NextPayment]_vars

\* row and row2 differ at most in column payment_status
SameButPaymentStatus(row, row2) ==
    row2 = [row EXCEPT !.payment_status = row2.payment_status]

\* C21: a payment notification changes only payment_status of the booking
\* and the status of the payment transaction: status, date, tee_time and
\* amounts of every booking are unchanged and no booking is added or removed.
C21_NotificationFrame ==
    [][(hook' # hook) =>
          /\ Len(tee_times') = Len(tee_times)
          /\ \A i \in 1..Len(tee_times) : SameButPaymentStatus(tee_times[i], tee_times'[i])
          /\ hook.pc = "idle" => tee_times' = tee_times
          /\ payment_intents' = payment_intents
          /\ Len(payment_transactions') = Len(payment_transactions)
          /\ \A k \in 1..Len(payment_transactions) :
                payment_transactions'[k] =
                    [payment_transactions[k]
                        EXCEPT !.status = payment_transactions'[k].status]]_vars

\* a failed payment has been recorded and the booking is still confirmed
C21_Witness ==
    /\ hook.pc = "idle"
    /\ tee_times[1].payment_status = "failed"
    /\ tee_times[1].status = "confirmed"
    /\ tee_times[1].total_amount = PaymentTeeTimes[1].total_amount
    /\ Len(payment_transactions) > 0
    /\ payment_transactions[1].status = "failed"

----------------------------------------------------------------------------
(* Order of the validation stages of an admission *)

\* the errors of the answer all come from the chain of one of the params
ReportsOnly(r, params) ==
    /\ post[r].response.status = 400
    /\ post[r].response.errors # <<>>
    /\ \A k \in 1..Len(post[r].response.errors) :
          post[r].response.errors[k].param \in params

StructuralParams == {"tee_time", "number_of_players", "green_fee_type"}

\* C22: a request that fails more than one stage is answered with the failure
\* of the earliest stage only, in the order structural (players, time, fee
\* type), temporal (date), availability.
C22_EarliestStageOnly ==
    \A r \in Reqs :
        post[r].pc = "done" =>
            /\ ~WellFormed(post[r].body) => ReportsOnly(r, StructuralParams)
            /\ (WellFormed(post[r].body) /\ DateRejected(r))
                  => ReportsOnly(r, {"booking_date"})

----------------------------------------------------------------------------
(* Availability as a function of the store *)

\* the answer for a date computed in one piece over the store
AnswerOver(date) ==
    Availability(TimeSlotsOf(admin_settings), BookedTimesOn(date), ConditionsOn(date))

----------------------------------------------------------------------------
(* Updates of a booking while the clock advances *)

\* bodies of PUT /bookings/:id
UpdateBodies ==
    {[cart_rental |-> TRUE],
     [cart_rental |-> FALSE],
     [special_requests |-> "late arrival"],
     [number_of_players |-> 4],
     [payment_status |-> "paid"]}

InitUpdate ==
    /\ tee_times = CancelTeeTimes
    /\ course_conditions = {}
    /\ admin_settings = SeedSettings
    /\ memberships = SeedMemberships
    /\ now = StartOfClock
    /\ InitRequests
    /\ NoPayments
    /\ NoEvents

NextUpdate ==
    \* alice's booking and bob's booking, 24 hours and 1 and 3 minutes away
    \/ \E id \in {1, 2}, updates \in UpdateBodies, token \in {"alice", "bob"} :
          PutStart(id, updates, token)
    \/ PutFetch
    \/ PutCartFee
    \/ PutUpdate
    \/ Tick

SpecUpdate == InitUpdate /\ [][NextUpdate]_vars

\* C24: an update decided when fewer than 24 hours remain until the tee time
\* of the booking is rejected, whatever fields it names (cart_rental and its
\* re-pricing included); a rejected update leaves the bookings unchanged;
\* bookings are written only by an update that passed the test.
C24_UpdateLock ==
    [][(put' # put) =>
          /\ (/\ put.pc = "fetch"
              /\ put.id \in 1..Len(tee_times)
              /\ MinutesUntil(put.id) < 24 * 60)
             => /\ put'.pc = "done"
                /\ put'.response.status \in {400, 403}
          /\ (put'.pc = "done" /\ put'.response.status # 200) => tee_times' = tee_times
          /\ tee_times' # tee_times => put.pc = "update"]_vars

\* alice's cart toggle was refused with less than 24 hours remaining, after
\* bob's had been accepted
C24_Witness ==
    /\ put.pc = "done"
    /\ put.id = 1
    /\ put.token = "alice"
    /\ put.response.status = 400
    /\ "cart_rental" \in DOMAIN put.updates
    /\ MinutesUntil(1) = 24 * 60 - 1
    /\ tee_times[1] = CancelTeeTimes[1]
    /\ tee_times[2].cart_rental
    /\ tee_times[2].total_amount = CancelTeeTimes[2].total_amount + DefaultCartFee

\* C25: a PUT /bookings/:id leaves booking_date, tee_time, status,
\* payment_status, user_id, number_of_players and total_green_fees of every
\* booking unchanged, whatever fields the body names.
C25_UpdateFrame ==
    [][(put' # put) =>
          \A i \in 1..Len(tee_times) :
              /\ tee_times'[i].booking_date = tee_times[i].booking_date
              /\ tee_times'[i].tee_time = tee_times[i].tee_time
              /\ tee_times'[i].status = tee_times[i].status
              /\ tee_times'[i].payment_status = tee_times[i].payment_status
              /\ tee_times'[i].user_id = tee_times[i].user_id
              /\ tee_times'[i].number_of_players = tee_times[i].number_of_players
              /\ tee_times'[i].total_green_fees = tee_times[i].total_green_fees]_vars

----------------------------------------------------------------------------
(* Properties of payments *)

\* C26: once payment_status of a booking is paid, no payment notification
\* changes it to failed or pending.
C26_PaidIsFinal ==
    [][(hook' # hook) =>
          \A i \in 1..Len(tee_times) :
              tee_times[i].payment_status = "paid" =>
                  tee_times'[i].payment_status \notin {"failed", "pending"}]_vars

\* C27: the amount of every payment intent, in cents, is the stored
\* total_amount of the booking it is for, and a booking is paid only when an
\* intent of its full total_amount exists for it.
C27_IntentAmountIsTotal ==
    /\ \A k \in 1..Len(payment_intents) :
          payment_intents[k].amount =
              tee_times[payment_intents[k].booking_id].total_amount * 100
    /\ \A i \in 1..Len(tee_times) :
          tee_times[i].payment_status = "paid" =>
              \E k \in 1..Len(payment_intents) :
                  /\ payment_intents[k].booking_id = i
                  /\ payment_intents[k].amount = tee_times[i].total_amount * 100

----------------------------------------------------------------------------
(* Admission after a cancellation *)

CancelledRows(date, time) ==
    {i \in 1..Len(tee_times) :
        /\ tee_times[i].booking_date = date
        /\ tee_times[i].tee_time = time
        /\ tee_times[i].status = "cancelled"}

\* C28: once the only confirmed booking of a slot has been cancelled, a valid
\* admission request for the same date and tee time passes the conflict check
\* and is stored as a new confirmed record, and the cancelled record stays
\* stored beside it.
C28_ReadmissionAfterCancel ==
    [][\A r \in Reqs :
          /\ (/\ post[r].pc = "check"
              /\ post'[r].pc # "check"
              /\ CancelledRows(post[r].body.booking_date,
                               TimeIn(post[r].body.tee_time)) # {}
              /\ ConfirmedRows(post[r].body.booking_date,
                               TimeIn(post[r].body.tee_time)) = {})
             => post'[r].pc = "pricing"
          /\ (post[r].pc = "insert" /\ post'[r].pc = "done")
             => /\ post'[r].response.status = 201
                /\ Len(tee_times') = Len(tee_times) + 1
                /\ tee_times'[Len(tee_times')].status = "confirmed"
                /\ \A i \in 1..Len(tee_times) : tee_times'[i] = tee_times[i]
          /\ (del.pc = "update" /\ del'.pc = "done" /\ del'.response.status = 200)
             => /\ Len(tee_times') = Len(tee_times)
                /\ tee_times'[del.id].status = "cancelled"]_vars

\* the first booking of the slot was cancelled and a second request for the
\* slot was admitted: both records are stored
C28_Witness ==
    \E r \in Reqs :
        /\ Admitted(r)
        /\ del.pc = "done"
        /\ del.response.status = 200
        /\ del.id < post[r].response.booking
        /\ tee_times[del.id].status = "cancelled"
        /\ AdmittedRow(r).status = "confirmed"
        /\ AdmittedRow(r).booking_date = tee_times[del.id].booking_date
        /\ AdmittedRow(r).tee_time = tee_times[del.id].tee_time
        /\ ConfirmedRows(AdmittedRow(r).booking_date, AdmittedRow(r).tee_time)
              = {post[r].response.booking}

----------------------------------------------------------------------------
(* Reading one booking while bookings are cancelled *)

InitView ==
    /\ tee_times = CancelTeeTimes
    /\ course_conditions = {}
    /\ admin_settings = SeedSettings
    /\ memberships = SeedMemberships
    /\ now = StartOfClock
    /\ InitRequests
    /\ NoPayments
    /\ NoEvents

NextView ==
    \* no token, the tokens of the three users and a token that is not valid
    \/ \E id \in CancelIds, token \in {NoUser, "alice", "bob", "admin", "expired"} :
          GetStart(id, token)
    \/ GetFetch
    \/ \E id \in CancelIds, token \in CancelTokens : DeleteStart(id, token)
    \/ DeleteFetch
    \/ DeleteUpdate

SpecView == InitView /\ [][NextView]_vars

\* C29: a booking that has an owner is returned by GET /bookings/:id only to
\* its owner or to an admin; every other caller, one without a token or with
\* an invalid token included, is refused.
C29_OwnerOrAdminOnly ==
    (/\ get.pc = "done"
     /\ get.id \in 1..Len(tee_times)
     /\ tee_times[get.id].user_id # NoUser)
    => ((get.response.status = 200)
          <=> (/\ UserOfToken(get.token) # NoUser
               /\ \/ UserOfToken(get.token) = tee_times[get.id].user_id
                  \/ UserRole(UserOfToken(get.token)) = "admin"))

----------------------------------------------------------------------------
(* Concurrent event registrations *)

Event(max, requiresMembership, fee, discount) ==
    [status |-> "upcoming",
     registration_deadline |-> Unset,
     max_participants |-> max,
     current_participants |-> 0,
     requires_membership |-> requiresMembership,
     entry_fee |-> fee,
     member_discount |-> discount]

\* an open event with one place and a members' event without a maximum
RegisterEvents ==
    <<Event(1, FALSE, 50, 0),
      Event(NoMaximum, TRUE, 50, 10)>>

InitRegister ==
    /\ tee_times = <<>>
    /\ course_conditions = {}
    /\ admin_settings = SeedSettings
    /\ memberships = SeedMemberships
    /\ now = StartOfClock
    /\ InitRequests
    /\ NoPayments
    /\ events = RegisterEvents
    /\ event_registrations = <<>>

NextRegister ==
    \* the ids of the two events and one id of no event; each request is made
    \* by a user of its own
    \/ \E r \in Reqs, id \in 1..(Len(RegisterEvents) + 1) :
          RegStart(r, id, <<"alice", "bob", "admin">>[r])
    \/ \E r \in Reqs : RegEvent(r)
    \/ \E r \in Reqs : RegExisting(r)
    \/ \E r \in Reqs : RegCount(r)
    \/ \E r \in Reqs : RegMembership(r)
    \/ \E r \in Reqs : RegFee(r)
    \/ \E r \in Reqs : RegInsert(r)
    \/ \E r \in Reqs : RegParticipants(r)

SpecRegister == InitRegister /\ [][NextRegister]_vars

\* C30: for an event with max_participants set, the number of registrations
\* with status registered never exceeds max_participants, whatever the
\* interleaving of concurrent registration requests by distinct users.
C30_CapacityRespected ==
    \A e \in 1..Len(events) :
        events[e].max_participants # NoMaximum =>
            Cardinality(Registered(e)) <= events[e].max_participants

====
